---- MODULE Spec2Model ----
(***************************************************************************)
(* Concept Chimera (src/app.py): a Streamlit page that loads a gensim      *)
(* KeyedVectors store once (load_model, reassembling the .npy matrix from  *)
(* split fragments when it is missing) and answers "word A + word B"       *)
(* queries (find_chimera) for every script run (main).                     *)
(*                                                                         *)
(* Three specifications:                                                   *)
(*   Spec            the script runs of concurrent sessions over one file  *)
(*                   system: load_model under st.cache_resource, the page  *)
(*   SpecReassemble  the load_model calls of one session, over every way   *)
(*                   the fragments can be named                            *)
(*   SpecQuery       find_chimera and the page main renders from its       *)
(*                   result, over every query input within the bounds      *)
(***************************************************************************)
EXTENDS Integers, Sequences, FiniteSets, TLC

VARIABLES
    npy,        \* chimera_full.kv.vectors.npy: [exists, data]
    parts,      \* the fragment files: suffix after ".part-" -> bytes
    kv,         \* chimera_full.kv: [exists, size] (size: matrix bytes it was saved with)
    cached,     \* st.cache_resource holds load_model's return value
    lock,       \* st.cache_resource's compute lock: 0 free, else the session holding it
    pc,         \* per session: position of its script run
    todo,       \* per session: load_model's local list `parts` still to be written
    outcome,    \* per session: how its last script run ended
    runs,       \* script runs started so far, over all sessions
    bodyRuns,   \* executions of load_model's body so far in this process
    reassembled,\* a reassembly ran to the end of its loop in this process
    q           \* the find_chimera call under examination (SpecQuery)

loadVars == <<npy, parts, kv, cached, lock, pc, todo, outcome, runs, bodyRuns, reassembled>>
vars == <<npy, parts, kv, cached, lock, pc, todo, outcome, runs, bodyRuns, reassembled, q>>

----------------------------------------------------------------------------
(* Bounds *)

NumTokens == 5      \* vocabulary of the store examined by SpecQuery: tokens 1..NumTokens
MixTokens == 1      \* vocabulary of the store the sessions of Spec query
NumSessions == 2    \* concurrent browser sessions
MaxRuns == 3        \* script runs, over all sessions
MaxWidth == 2       \* the splitter zero-pads ordinals to 1..MaxWidth digits
MaxParts == 2       \* fragment files on disk
MaxPartLen == 1     \* bytes in a fragment

Bytes == {0, 1}                         \* byte values
Scores == {0, 1}                        \* similarity scores
Ordinals == {1, 2, 10}                  \* fragment ordinals (SpecReassemble)
SessionOrdinals == {0, 1}               \* fragment ordinals (Spec)
Sessions == 1..NumSessions

(* Program constants *)

TopN == 5           \* most_similar(..., topn=5)
Shown == 3          \* filtered[:3]
None == -1          \* Python's None
Empty == 0          \* the empty string ""

Min(a, b) == IF a <= b THEN a ELSE b

----------------------------------------------------------------------------
(* find_chimera and the page main renders                                  *)

\* A token is a positive integer; 0 is the empty string. The text typed into
\* a widget is a token with or without surrounding blanks; token n + 1 is
\* a word outside the vocabulary 1..n.
RawWords(n) == [tok : 0..(n + 1), pad : BOOLEAN]

\* str.strip()
strip(raw) == raw.tok

\* truth value of a str: empty is false, a blank-only text is true
TruthyText(raw) == raw.tok # Empty \/ raw.pad

\* truth value of result_word: None and "" are false
TruthyWord(w) == w # None /\ w # Empty

\* The lists model.most_similar can hand back for topn = k over the
\* vocabulary 1..n: at most k (word, score) entries, words distinct, scores
\* non-increasing.
RECURSIVE Rankings(_, _)
Rankings(n, k) ==
    IF k = 0 THEN {<< >>}
    ELSE LET shorter == Rankings(n, k - 1)
         IN shorter \cup
            {Append(r, <<w, s>>) :
                <<r, w, s>> \in {<<r, w, s>> \in shorter \X (1..n) \X Scores :
                    /\ Len(r) = k - 1
                    /\ \A i \in 1..Len(r) : r[i][1] # w
                    /\ Len(r) > 0 => r[Len(r)][2] >= s}}

\* `word in model`
InModel(n, w) == w \in 1..n

\* faulty variant: only word_a is filtered out
FilterInputs_onlyA(result, word_a, word_b) ==
    SelectSeq(result, LAMBDA e : e[1] # word_a)

\* the list comprehension of lines 219-220
FilterInputs(result, word_a, word_b) ==
    SelectSeq(result, LAMBDA e : e[1] # word_a /\ e[1] # word_b)

\* faulty variant: word_b is not looked up
find_chimera_noCheckB(n, word_a, word_b, raises, result) ==
    IF ~InModel(n, word_a) THEN [word |-> None, similar |-> << >>, line |-> 205]
    ELSE IF raises THEN [word |-> None, similar |-> << >>, line |-> 227]
    ELSE LET filtered == FilterInputs(result, word_a, word_b)
         IN IF Len(filtered) > 0
            THEN [word |-> filtered[1][1],
                  similar |-> SubSeq(filtered, 1, Min(Shown, Len(filtered))),
                  line |-> 223]
            ELSE [word |-> None, similar |-> << >>, line |-> 225]

\* find_chimera(model, word_a, word_b): n is the model's vocabulary size,
\* raises/result what model.most_similar does. `line` is the return
\* statement taken.
find_chimera(n, word_a, word_b, raises, result) ==
    IF ~InModel(n, word_a) THEN [word |-> None, similar |-> << >>, line |-> 205]
    ELSE IF ~InModel(n, word_b) THEN [word |-> None, similar |-> << >>, line |-> 207]
    ELSE IF raises THEN [word |-> None, similar |-> << >>, line |-> 227]
    ELSE LET filtered == FilterInputs(result, word_a, word_b)
         IN IF Len(filtered) > 0
            THEN [word |-> filtered[1][1],
                  similar |-> SubSeq(filtered, 1, Min(Shown, Len(filtered))),
                  line |-> 223]
            ELSE [word |-> None, similar |-> << >>, line |-> 225]

\* what the caller of find_chimera receives
Returned(r) == <<r.word, r.similar>>

\* line 256: find_chimera is called
Queried(mix_button, word_a, word_b) ==
    mix_button /\ TruthyText(word_a) /\ TruthyText(word_b)

\* main, lines 256-282: the block rendered after the button
render(mix_button, word_a, word_b, n, raises, result) ==
    IF ~Queried(mix_button, word_a, word_b)
    THEN [kind |-> "none", ret |-> <<None, << >>>>, line |-> 0,
          word |-> None, others |-> << >>]
    ELSE LET r == find_chimera(n, strip(word_a), strip(word_b), raises, result)
         IN IF TruthyWord(r.word)
            THEN [kind |-> "result", ret |-> Returned(r), line |-> r.line,
                  word |-> r.word,
                  others |-> IF Len(r.similar) > 1 THEN Tail(r.similar) ELSE << >>]
            ELSE [kind |-> "warning", ret |-> Returned(r), line |-> r.line,
                  word |-> None, others |-> << >>]

----------------------------------------------------------------------------
(* The files                                                               *)

\* A fragment is named chimera_full.kv.vectors.npy.part-<suffix>; a suffix is
\* the sequence of its decimal digits, which compare as their characters do.
RECURSIVE Digits(_)
Digits(o) == IF o < 10 THEN <<o>> ELSE Append(Digits(o \div 10), o % 10)

\* the suffix the splitter writes for ordinal o: zero-padded to w digits,
\* longer when o does not fit
RECURSIVE Format(_, _)
Format(o, w) ==
    LET d == Digits(o) IN IF Len(d) >= w THEN d ELSE <<0>> \o Format(o, w - 1)

\* Python's str comparison a < b
LexLess(a, b) ==
    \E i \in 1..(Min(Len(a), Len(b)) + 1) :
        /\ \A j \in 1..(i - 1) : a[j] = b[j]
        /\ \/ i > Len(a) /\ i <= Len(b)
           \/ i <= Len(a) /\ i <= Len(b) /\ a[i] < b[i]

\* faulty variant: the fragments in descending order of their names
sorted_reverse(S) ==
    CHOOSE seq \in [1..Cardinality(S) -> S] :
        \A i, j \in 1..Cardinality(S) : i < j => LexLess(seq[j], seq[i])

\* sorted(glob.glob(f"{parts_prefix}*")), line 181: the names in ascending
\* string order
sorted(S) ==
    CHOOSE seq \in [1..Cardinality(S) -> S] :
        \A i, j \in 1..Cardinality(S) : i < j => LexLess(seq[i], seq[j])

\* the bytes of the fragments `names`, one after the other
RECURSIVE Concat(_, _)
Concat(names, files) ==
    IF names = << >> THEN << >>
    ELSE files[Head(names)] \o Concat(Tail(names), files)

\* int(suffix): the ordinal a suffix denotes
RECURSIVE Ordinal(_)
Ordinal(name) ==
    IF name = << >> THEN 0
    ELSE 10 * Ordinal(SubSeq(name, 1, Len(name) - 1)) + name[Len(name)]

\* the names S in ascending order of their ordinals
ByOrdinal(S) ==
    CHOOSE seq \in [1..Cardinality(S) -> S] :
        \A i, j \in 1..Cardinality(S) : i < j => Ordinal(seq[i]) < Ordinal(seq[j])

PartData == UNION {[1..n -> Bytes] : n \in 0..MaxPartLen}

Absent == [exists |-> FALSE, data |-> << >>]
File(d) == [exists |-> TRUE, data |-> d]

\* The fragment files the splitter leaves for pieces c (ordinal -> bytes)
\* with ordinals written w digits wide.
Split(c, w) ==
    [name \in {Format(o, w) : o \in DOMAIN c} |-> c[Ordinal(name)]]

\* The unsplit matrix: the pieces in ascending ordinal order.
Original(files) == Concat(ByOrdinal(DOMAIN files), files)

\* The fragment sets a splitter can have left: at most MaxParts pieces with
\* ordinals among `ordinals`, written with one of `widths`.
SplitStores(ordinals, widths) ==
    UNION {{Split(c, w) : c \in [O -> PartData]} :
        <<O, w>> \in {O \in SUBSET ordinals : Cardinality(O) <= MaxParts} \X widths}

\* The matrix file next to fragments p: missing, or the unsplit original
\* (any matrix when nothing was split).
Matrices(p) ==
    {Absent} \cup IF DOMAIN p = {} THEN {File(d) : d \in PartData}
                  ELSE {File(Original(p))}

\* The header chimera_full.kv: missing, or saved with the matrix
\* (make_light_dict.py, line 28) and recording its size.
Headers(p, f) ==
    {[exists |-> FALSE, size |-> 0],
     [exists |-> TRUE, size |-> IF f.exists THEN Len(f.data) ELSE Len(Original(p))]}

\* The stores a deployment can start from.
Stores(ordinals, widths) ==
    UNION {UNION {{[parts |-> p, kv |-> k, npy |-> f] : k \in Headers(p, f)} :
                f \in Matrices(p)} :
            p \in SplitStores(ordinals, widths)}

NoQuery == [stage |-> "none"]

InitStore(ordinals, widths) ==
    /\ \E st \in Stores(ordinals, widths) :
        /\ parts = st.parts
        /\ kv = st.kv
        /\ npy = st.npy
    /\ cached = FALSE
    /\ lock = 0
    /\ pc = [s \in Sessions |-> "idle"]
    /\ todo = [s \in Sessions |-> << >>]
    /\ outcome = [s \in Sessions |-> "unstarted"]
    /\ runs = 0
    /\ bodyRuns = 0
    /\ reassembled = FALSE
    /\ q = NoQuery

Init == InitStore(SessionOrdinals, {MaxWidth})

InitReassemble == InitStore(Ordinals, 1..MaxWidth)

----------------------------------------------------------------------------
(* load_model under @st.cache_resource (lines 171-195)                     *)

\* the exit of the cached function: the compute lock is released
Release(s) == lock' = IF lock = s THEN 0 ELSE lock

\* faulty variant: the lock is taken without waiting for its holder
LockFree_always == TRUE

\* the compute lock can be taken
LockFree == lock = 0

\* faulty variant: the existence check is lost: reassembly whenever fragments exist
NpyExists_never == FALSE

\* os.path.exists(npy_path), line 179
NpyExists == npy.exists

\* faulty variant: whatever is on disk counts as loaded
Loadable_always == TRUE

\* KeyedVectors.load(model_path, mmap='r') returns: the header is there and
\* the matrix file has the size the header was saved with
Loadable == kv.exists /\ npy.exists /\ Len(npy.data) = kv.size

\* main, line 237: a script run starts and calls load_model; the cache
\* answers at once when it holds the value
Request(s) ==
    /\ pc[s] \in {"idle", "done"}
    /\ runs < MaxRuns
    /\ runs' = runs + 1
    /\ outcome' = [outcome EXCEPT ![s] = "running"]
    /\ pc' = [pc EXCEPT ![s] = IF cached THEN "input" ELSE "wait"]
    /\ UNCHANGED <<npy, parts, kv, cached, lock, todo, bodyRuns, reassembled, q>>

\* cache miss: wait for the compute lock
Acquire(s) ==
    /\ pc[s] = "wait"
    /\ LockFree
    /\ lock' = s
    /\ pc' = [pc EXCEPT ![s] = "locked"]
    /\ UNCHANGED <<npy, parts, kv, cached, todo, outcome, runs, bodyRuns, reassembled, q>>

\* with the lock held the cache is read again: another session may have
\* computed the value meanwhile
RecheckHit(s) ==
    /\ pc[s] = "locked"
    /\ cached
    /\ Release(s)
    /\ pc' = [pc EXCEPT ![s] = "input"]
    /\ UNCHANGED <<npy, parts, kv, cached, todo, outcome, runs, bodyRuns, reassembled, q>>

\* still a miss: the body of load_model runs
RecheckMiss(s) ==
    /\ pc[s] = "locked"
    /\ ~cached
    /\ bodyRuns' = bodyRuns + 1
    /\ pc' = [pc EXCEPT ![s] = "line179"]
    /\ UNCHANGED <<npy, parts, kv, cached, lock, todo, outcome, runs, reassembled, q>>

\* lines 179-182: is the matrix file there, and if not, which fragments are
CheckNpy(s) ==
    /\ pc[s] = "line179"
    /\ IF NpyExists
       THEN /\ pc' = [pc EXCEPT ![s] = "line190"]
            /\ todo' = todo
       ELSE LET found == sorted(DOMAIN parts)
            IN IF found # << >>
               THEN /\ todo' = [todo EXCEPT ![s] = found]
                    /\ pc' = [pc EXCEPT ![s] = "line184"]
               ELSE /\ pc' = [pc EXCEPT ![s] = "line190"]
                    /\ todo' = todo
    /\ UNCHANGED <<npy, parts, kv, cached, lock, outcome, runs, bodyRuns, reassembled, q>>

\* line 184: open(npy_path, "wb") creates the file, empty
OpenOut(s) ==
    /\ pc[s] = "line184"
    /\ npy' = File(<< >>)
    /\ pc' = [pc EXCEPT ![s] = "line185"]
    /\ UNCHANGED <<parts, kv, cached, lock, todo, outcome, runs, bodyRuns, reassembled, q>>

\* lines 185-187: one fragment is read and written
WritePart(s) ==
    /\ pc[s] = "line185"
    /\ todo[s] # << >>
    /\ npy' = File(npy.data \o parts[Head(todo[s])])
    /\ todo' = [todo EXCEPT ![s] = Tail(@)]
    /\ UNCHANGED <<parts, kv, cached, lock, pc, outcome, runs, bodyRuns, reassembled, q>>

\* the loop ends, the file is closed; line 188
CloseOut(s) ==
    /\ pc[s] = "line185"
    /\ todo[s] = << >>
    /\ reassembled' = TRUE
    /\ pc' = [pc EXCEPT ![s] = "line190"]
    /\ UNCHANGED <<npy, parts, kv, cached, lock, todo, outcome, runs, bodyRuns, q>>

\* lines 184-187 raise (the disk is full, a fragment cannot be read): the
\* with-blocks close the files, nothing removes the output, the exception
\* leaves load_model and ends the script run
WriteFails(s) ==
    /\ pc[s] \in {"line184", "line185"}
    /\ todo' = [todo EXCEPT ![s] = << >>]
    /\ Release(s)
    /\ outcome' = [outcome EXCEPT ![s] = "WriteException"]
    /\ pc' = [pc EXCEPT ![s] = "done"]
    /\ UNCHANGED <<npy, parts, kv, cached, runs, bodyRuns, reassembled, q>>

\* lines 190-192: st.error("Model file not found") and st.stop()
CheckKv(s) ==
    /\ pc[s] = "line190"
    /\ IF ~kv.exists
       THEN /\ outcome' = [outcome EXCEPT ![s] = "ModelFileNotFound"]
            /\ Release(s)
            /\ pc' = [pc EXCEPT ![s] = "done"]
       ELSE /\ pc' = [pc EXCEPT ![s] = "line195"]
            /\ UNCHANGED <<outcome, lock>>
    /\ UNCHANGED <<npy, parts, kv, cached, todo, runs, bodyRuns, reassembled, q>>

\* line 195: KeyedVectors.load returns the model, which the cache keeps, or
\* raises, which ends the script run with nothing cached
Load(s) ==
    /\ pc[s] = "line195"
    /\ IF Loadable
       THEN /\ cached' = TRUE
            /\ pc' = [pc EXCEPT ![s] = "input"]
            /\ outcome' = outcome
       ELSE /\ outcome' = [outcome EXCEPT ![s] = "LoadException"]
            /\ pc' = [pc EXCEPT ![s] = "done"]
            /\ cached' = cached
    /\ Release(s)
    /\ UNCHANGED <<npy, parts, kv, todo, runs, bodyRuns, reassembled, q>>

----------------------------------------------------------------------------
(* main after load_model returned (lines 239-290)                          *)

\* what model.most_similar(positive=[word_a, word_b], topn=5) does over the
\* vocabulary 1..n: it raises, or returns a ranking
MostSimilar(n) ==
    {[raises |-> TRUE, result |-> << >>]}
        \cup {[raises |-> FALSE, result |-> r] : r \in Rankings(n, TopN)}

NotCalled == [raises |-> FALSE, result |-> << >>]

\* every value of the widgets, with what most_similar does when called
PageInputs(n) ==
    {i \in BOOLEAN \X RawWords(n) \X RawWords(n) \X MostSimilar(n) :
        Queried(i[1], i[2], i[3]) \/ i[4] = NotCalled}

\* the pages a script run can render over the store of the sessions
MixPages ==
    {render(i[1], i[2], i[3], MixTokens, i[4].raises, i[4].result) :
        i \in PageInputs(MixTokens)}

\* the rest of a script run: the widgets are read and, on the button, the
\* query is answered
Page(s) ==
    /\ pc[s] = "input"
    /\ \E page \in MixPages : outcome' = [outcome EXCEPT ![s] = page.kind]
    /\ pc' = [pc EXCEPT ![s] = "done"]
    /\ UNCHANGED <<npy, parts, kv, cached, lock, todo, runs, bodyRuns, reassembled, q>>

Step(s) ==
    \/ Request(s)
    \/ Acquire(s)
    \/ RecheckHit(s)
    \/ RecheckMiss(s)
    \/ CheckNpy(s)
    \/ OpenOut(s)
    \/ WritePart(s)
    \/ CloseOut(s)
    \/ WriteFails(s)
    \/ CheckKv(s)
    \/ Load(s)
    \/ Page(s)

Next == \E s \in Sessions : Step(s)

Spec == Init /\ [][Next]_vars

\* the load_model calls of one session alone, over every store
LoadAlone(s) ==
    \/ Request(s)
    \/ Acquire(s)
    \/ RecheckMiss(s)
    \/ CheckNpy(s)
    \/ OpenOut(s)
    \/ WritePart(s)
    \/ CloseOut(s)
    \/ WriteFails(s)
    \/ CheckKv(s)
    \/ Load(s)

NextReassemble == LoadAlone(1)

SpecReassemble == InitReassemble /\ [][NextReassemble]_vars

----------------------------------------------------------------------------
(* find_chimera over every query                                           *)

\* Session 1 has loaded a store of NumTokens tokens and shows the widgets.
InitQuery ==
    /\ parts = << >>
    /\ kv = [exists |-> TRUE, size |-> 0]
    /\ npy = File(<< >>)
    /\ cached = TRUE
    /\ lock = 0
    /\ pc = [s \in Sessions |-> IF s = 1 THEN "input" ELSE "idle"]
    /\ todo = [s \in Sessions |-> << >>]
    /\ outcome = [s \in Sessions |-> IF s = 1 THEN "running" ELSE "unstarted"]
    /\ runs = 1
    /\ bodyRuns = 1
    /\ reassembled = FALSE
    /\ \E mix_button \in BOOLEAN, word_a, word_b \in RawWords(NumTokens) :
        q = [stage |-> "input", mix_button |-> mix_button,
             word_a |-> word_a, word_b |-> word_b]

\* lines 256-282 for the widgets' values in q
Fuse ==
    /\ pc[1] = "input"
    /\ q.stage = "input"
    /\ \E ms \in IF Queried(q.mix_button, q.word_a, q.word_b)
                 THEN MostSimilar(NumTokens) ELSE {NotCalled} :
        LET page == render(q.mix_button, q.word_a, q.word_b, NumTokens,
                           ms.raises, ms.result)
        IN /\ q' = [stage |-> "done", mix_button |-> q.mix_button,
                    word_a |-> q.word_a, word_b |-> q.word_b,
                    result |-> ms.result, raises |-> ms.raises, page |-> page]
           /\ outcome' = [outcome EXCEPT ![1] = page.kind]
    /\ pc' = [pc EXCEPT ![1] = "done"]
    /\ UNCHANGED <<npy, parts, kv, cached, lock, todo, runs, bodyRuns, reassembled>>

NextQuery == Fuse

SpecQuery == InitQuery /\ [][NextQuery]_vars

----------------------------------------------------------------------------
(* Claims about find_chimera (SpecQuery)                                   *)

\* the query of q has been answered
Answered == q.stage = "done" /\ Queried(q.mix_button, q.word_a, q.word_b)

QA == strip(q.word_a)
QB == strip(q.word_b)
BothKnown == InModel(NumTokens, QA) /\ InModel(NumTokens, QB)

\* what the caller and the user can observe of a rendered query
Visible(page) == <<page.kind, page.ret, page.word, page.others>>

\* which of the two words of a query are outside the vocabulary
UnknownOf(a, b) == <<~InModel(NumTokens, strip(a)), ~InModel(NumTokens, strip(b))>>

\* the queries that have an unknown word, as typed
UnknownQueries ==
    {ab \in RawWords(NumTokens) \X RawWords(NumTokens) :
        /\ TruthyText(ab[1]) /\ TruthyText(ab[2])
        /\ UnknownOf(ab[1], ab[2]) # <<FALSE, FALSE>>}

\* what such a query shows (most_similar is not reached)
UnknownPage(ab) == render(TRUE, ab[1], ab[2], NumTokens, FALSE, << >>)

\* every (which words are unknown, what is shown, what is returned) of a
\* query with an unknown word
UnknownOutcomes ==
    {<<UnknownOf(ab[1], ab[2]), Visible(UnknownPage(ab)), UnknownPage(ab).ret>> :
        ab \in UnknownQueries}

\* the candidates that are not an input word, in ranked order
Survivors == SelectSeq(q.result, LAMBDA e : e[1] \notin {QA, QB})

\* C1: for known word_a and word_b and every list most_similar returns, no
\* entry find_chimera returns (the result word, the similar-words list) is
\* word_a or word_b.
C1_NoInputReturned ==
    (Answered /\ BothKnown) =>
        /\ q.page.ret[1] \notin {QA, QB}
        /\ \A i \in 1..Len(q.page.ret[2]) : q.page.ret[2][i][1] \notin {QA, QB}

\* C1 witness: both inputs were among the candidates, ahead of the word returned.
C1_Witness ==
    /\ Answered /\ BothKnown /\ QA # QB
    /\ Len(q.result) = TopN
    /\ q.result[1][1] = QA /\ q.result[2][1] = QB
    /\ Len(q.page.ret[2]) = Shown

C8_Original ==
    (Answered /\ BothKnown /\ ~q.raises) =>
        /\ TopN = Shown + 2
        /\ Len(q.result) <= Shown + 2
        /\ q.page.ret[2] = SubSeq(Survivors, 1, Min(Shown, Len(Survivors)))
        /\ q.page.kind = "result"

\* C9 as claimed: a query on known words that leaves no survivor, or whose
\* most_similar call raises, never returns what a query with an unknown
\* word returns.
C9_Original ==
    (Answered /\ BothKnown /\ (q.raises \/ Survivors = << >>)) =>
        \A o \in UnknownOutcomes : o[3] # q.page.ret

----------------------------------------------------------------------------
(* Claims about load_model (Spec, SpecReassemble)                          *)

\* a session is inside the body of load_model
InBody(s) == pc[s] \in {"line179", "line184", "line185", "line190", "line195"}

\* a session is writing the matrix file
Writing(s) == pc[s] = "line185"

Failures == {"WriteException", "ModelFileNotFound", "LoadException"}

\* all fragment names have the same number of digits
SameWidth == \A a, b \in DOMAIN parts : Len(a) = Len(b)

\* C2 as claimed: whenever no reassembly is in progress, the matrix file of a
\* split store is absent or is the complete concatenation of the fragments.
C2_Original ==
    (DOMAIN parts # {} /\ \A s \in Sessions : ~Writing(s)) =>
        (~npy.exists \/ npy.data = Original(parts))

\* C4 as claimed: a finished reassembly leaves the fragments' bytes in
\* ascending ordinal order, each fragment once, for every set of ordinals.
C4_Original == reassembled => (npy.exists /\ npy.data = Original(parts))

\* C4 as amended: a finished reassembly leaves the fragments' bytes, each
\* fragment once and unchanged, in ascending order of the file names compared
\* as strings; that is ascending ordinal order when all ordinals are written
\* with the same number of digits.
C4_ByteExact ==
    reassembled =>
        /\ npy.exists
        /\ \E order \in [1..Cardinality(DOMAIN parts) -> DOMAIN parts] :
              /\ \A i, j \in DOMAIN order : i < j => LexLess(order[i], order[j])
              /\ npy.data = Concat(order, parts)
        /\ SameWidth => npy.data = Original(parts)

\* C4 witness: two fragments of different bytes, named with equal width, were
\* reassembled.
C4_Witness ==
    /\ reassembled
    /\ SameWidth
    /\ \E a, b \in DOMAIN parts :
          a # b /\ parts[a] # << >> /\ parts[b] # << >> /\ parts[a] # parts[b]

\* C5: when the matrix file exists and no reassembly is writing it, no step
\* changes the matrix file or a fragment, and no reassembly starts: a
\* load_model run that finds the file skips lines 180-188.
C5_Idempotent ==
    [][(npy.exists /\ \A s \in Sessions : ~Writing(s)) =>
          /\ npy' = npy
          /\ parts' = parts
          /\ \A s \in Sessions : pc'[s] \notin {"line184", "line185"}]_vars

\* C5 witness: a second execution of the body, after the first reassembled
\* the file and then stopped at the missing header, has skipped reassembly.
C5_Witness ==
    /\ reassembled
    /\ bodyRuns = 2
    /\ \E s \in Sessions : pc[s] = "line190"
    /\ \E t \in Sessions : outcome[t] = "ModelFileNotFound"

\* C6 as claimed: with neither the matrix file nor a fragment, load_model
\* never reaches KeyedVectors.load and the script run ends with the
\* missing-file stop, header or no header.
C6_Original ==
    (~npy.exists /\ DOMAIN parts = {}) =>
        \A s \in Sessions :
            /\ pc[s] # "line195"
            /\ (pc[s] = "done" => outcome[s] = "ModelFileNotFound")

\* at most one session is in the body, and it holds the lock; a session
\* outside the cached function does not hold it
Serialized ==
    /\ \A s, t \in Sessions : (InBody(s) /\ InBody(t)) => s = t
    /\ \A s \in Sessions : InBody(s) => lock = s
    /\ \A s \in Sessions : pc[s] \in {"idle", "wait", "input", "done"} => lock # s

====
